---- MODULE Spec2Model ----
(***************************************************************************)
(* Model of project/common/ExternalInterface.cpp: the CFFI bridge between  *)
(* the host runtime and the Chartboost SDK.  The state of the bridge is    *)
(* the global chartboostEventHandle and the AutoGCRoot objects it has      *)
(* allocated.  The native SDK and the host handler are the environment:    *)
(* what the bridge calls on either side is recorded, per operation         *)
(* (lastCall) and for the handler over the whole run (received).           *)
(***************************************************************************)
EXTENDS Integers, Sequences, FiniteSets, TLC

VARIABLES
    chartboostEventHandle,  \* 0, or the address (index in heap) of an AutoGCRoot
    heap,                   \* the AutoGCRoot objects allocated so far: the host function each roots
    received,               \* the invocations of host handlers, in order: [handler, arg]
    objects,                \* number of alloc_empty_object calls so far
    sent,                   \* history: the native callbacks so far, with whether a listener was set
    listeners,              \* history: the host functions passed to set_listener, in order
    lastCall                \* the most recent operation: its name, arguments, native calls, result

vars == <<chartboostEventHandle, heap, received, objects, sent, listeners, lastCall>>

\* ---------------------------------------------------------------- bounds
MaxListeners == 2       \* set_listener calls in a run
MaxEvents == 2          \* native callbacks in a run

\* ---------------------------------------------------------------- values
\* Host strings are sequences of non-zero characters; C strings are buffers
\* that end with the terminator 0.
HostStrings == {<<1>>, <<2, 1>>}
HostFunctions == {"onEventA", "onEventB"}
NativeStrings == {<<1, 0>>, <<2, 1, 0>>}
EventTypes == {<<1, 0>>}
EventLocations == {<<2, 0>>}
EventUris == {<<3, 3, 0>>}
RewardCoins == {5}
\* CHBCacheErrorCode / CHBShowErrorCode / CHBClickErrorCode values: 0 is a
\* real error code of all three (Internal, Internal, UriInvalid).
ErrorCodes == {0, 7}

\* HxString::c_str(): the characters followed by the terminator.
c_str(s) == Append(s, 0)

\* Length of a C string: the number of characters before the first 0.
strlen(cs) == (CHOOSE i \in 1..Len(cs) : cs[i] = 0 /\ \A j \in 1..(i - 1) : cs[j] # 0) - 1

\* alloc_string / HxString(const char*): a host string with the characters
\* of the C string up to the terminator.
alloc_string(cs) == SubSeq(cs, 1, strlen(cs))

\* alloc_int: a host integer with the value of the C int.
alloc_int(i) == i

\* alloc_bool: a host boolean with the value of the C bool.
alloc_bool(b) == b

\* val_id: the field id of a field name.
val_id(name) == name

\* alloc_empty_object: a host object with no fields.
alloc_empty_object == [f \in {} |-> 0]

\* alloc_field: the object with field id set to v.
alloc_field(o, id, v) == [f \in (DOMAIN o) \cup {id} |-> IF f = id THEN v ELSE o[f]]

\* EventObject with the type and location values stored under each other's field.
EventObject_swapped(type, location, uri, reward_coins, error, status) ==
    LET o0 == alloc_empty_object
        o1 == alloc_field(o0, val_id("type"), alloc_string(location))
        o2 == alloc_field(o1, val_id("location"), alloc_string(type))
        o3 == alloc_field(o2, val_id("uri"), alloc_string(uri))
        o4 == alloc_field(o3, val_id("reward_coins"), alloc_int(reward_coins))
        o5 == alloc_field(o4, val_id("error"), alloc_int(error))
        o6 == alloc_field(o5, val_id("status"), alloc_bool(status))
    IN  o6

\* The object sendChartboostEvent builds (lines 144-150).
EventObject(type, location, uri, reward_coins, error, status) ==
    LET o0 == alloc_empty_object
        o1 == alloc_field(o0, val_id("type"), alloc_string(type))
        o2 == alloc_field(o1, val_id("location"), alloc_string(location))
        o3 == alloc_field(o2, val_id("uri"), alloc_string(uri))
        o4 == alloc_field(o3, val_id("reward_coins"), alloc_int(reward_coins))
        o5 == alloc_field(o4, val_id("error"), alloc_int(error))
        o6 == alloc_field(o5, val_id("status"), alloc_bool(status))
    IN  o6

\* A call of a native entry point: its name, arguments and result (<<>> for void).
NativeCall(name, args, ret) == [name |-> name, args |-> args, ret |-> ret]

\* A bridging function that touches no bridge state: it makes the native
\* calls and hands ret (<<>> for void) back to the host.
Bridge(name, args, native, ret) ==
    /\ lastCall' = [name |-> name, args |-> args, native |-> native, ret |-> ret]
    /\ UNCHANGED <<chartboostEventHandle, heap, received, objects, sent, listeners>>

\* ---------------------------------------------------------------- Init
Init ==
    /\ chartboostEventHandle = 0
    /\ heap = <<>>
    /\ received = <<>>
    /\ objects = 0
    /\ sent = <<>>
    /\ listeners = <<>>
    /\ lastCall = [name |-> "init", args |-> <<>>, native |-> <<>>, ret |-> <<>>]

\* ---------------------------------------------------------------- actions
\* set_listener that keeps a handle already set.
set_listener_once ==
    /\ Len(listeners) < MaxListeners
    /\ \E onEvent \in HostFunctions :
        /\ listeners' = Append(listeners, onEvent)
        /\ IF chartboostEventHandle = 0
           THEN /\ heap' = Append(heap, onEvent)
                /\ chartboostEventHandle' = Len(heap) + 1
           ELSE UNCHANGED <<heap, chartboostEventHandle>>
        /\ lastCall' = [name |-> "set_listener", args |-> <<onEvent>>,
                        native |-> <<>>, ret |-> <<>>]
    /\ UNCHANGED <<received, objects, sent>>

set_listener ==
    /\ Len(listeners) < MaxListeners
    /\ \E onEvent \in HostFunctions :
        /\ listeners' = Append(listeners, onEvent)
        /\ heap' = Append(heap, onEvent)
        /\ chartboostEventHandle' = Len(heap) + 1
        /\ lastCall' = [name |-> "set_listener", args |-> <<onEvent>>,
                        native |-> <<>>, ret |-> <<>>]
    /\ UNCHANGED <<received, objects, sent>>

show_interstitial ==
    \E location \in HostStrings :
        Bridge("show_interstitial", <<location>>,
               <<NativeCall("showInterstitial", <<c_str(location)>>, <<>>)>>, <<>>)

cache_interstitial ==
    \E location \in HostStrings :
        Bridge("cache_interstitial", <<location>>,
               <<NativeCall("cacheInterstitial", <<c_str(location)>>, <<>>)>>, <<>>)

\* Declared void: the result of hasInterstitial does not reach the host.
has_interstitial ==
    \E location \in HostStrings, r \in BOOLEAN :
        Bridge("has_interstitial", <<location>>,
               <<NativeCall("hasInterstitial", <<c_str(location)>>, <<r>>)>>, <<>>)

show_rewarded_video ==
    \E location \in HostStrings :
        Bridge("show_rewarded_video", <<location>>,
               <<NativeCall("showRewardedVideo", <<c_str(location)>>, <<>>)>>, <<>>)

cache_rewarded_video ==
    \E location \in HostStrings :
        Bridge("cache_rewarded_video", <<location>>,
               <<NativeCall("cacheRewardedVideo", <<c_str(location)>>, <<>>)>>, <<>>)

\* The body calls returnhasRewardedVideo and has no return statement: the
\* bool handed to the host is whatever the build leaves there.
has_rewarded_video ==
    \E location \in HostStrings, r \in BOOLEAN, garbage \in BOOLEAN :
        Bridge("has_rewarded_video", <<location>>,
               <<NativeCall("returnhasRewardedVideo", <<c_str(location)>>, <<r>>)>>,
               <<garbage>>)

is_any_view_visible ==
    \E r \in BOOLEAN :
        Bridge("is_any_view_visible", <<>>,
               <<NativeCall("isAnyViewVisible", <<>>, <<r>>)>>, <<r>>)

set_custom_id ==
    \E id \in HostStrings :
        Bridge("set_custom_id", <<id>>,
               <<NativeCall("setCustomId", <<c_str(id)>>, <<>>)>>, <<>>)

get_custom_id ==
    \E r \in NativeStrings :
        Bridge("get_custom_id", <<>>,
               <<NativeCall("getCustomId", <<>>, <<r>>)>>, <<r>>)

set_should_request_interstitials_in_first_session ==
    \E shouldRequest \in BOOLEAN :
        Bridge("set_should_request_interstitials_in_first_session", <<shouldRequest>>,
               <<NativeCall("setShouldRequestInterstitialsInFirstSession",
                            <<shouldRequest>>, <<>>)>>, <<>>)

get_auto_cache_ads ==
    \E r \in BOOLEAN :
        Bridge("get_auto_cache_ads", <<>>,
               <<NativeCall("getAutoCacheAds", <<>>, <<r>>)>>, <<r>>)

set_auto_cache_ads ==
    \E autoCache \in BOOLEAN :
        Bridge("set_auto_cache_ads", <<autoCache>>,
               <<NativeCall("setAutoCacheAds", <<autoCache>>, <<>>)>>, <<>>)

set_should_prefetch_video_content ==
    \E shouldPrefetch \in BOOLEAN :
        Bridge("set_should_prefetch_video_content", <<shouldPrefetch>>,
               <<NativeCall("setShouldPrefetchVideoContent", <<shouldPrefetch>>, <<>>)>>, <<>>)

get_sdk_version ==
    \E r \in NativeStrings :
        Bridge("get_sdk_version", <<>>,
               <<NativeCall("getSDKVersion", <<>>, <<r>>)>>, <<alloc_string(r)>>)

\* val_bool reads its argument as a host value; shouldHide is a C bool, not
\* a host value, so what val_bool hands to setStatusBarBehavior is undefined.
set_status_bar_behavior ==
    \E shouldHide \in BOOLEAN, undefined \in BOOLEAN :
        Bridge("set_status_bar_behavior", <<shouldHide>>,
               <<NativeCall("setStatusBarBehavior", <<undefined>>, <<>>)>>, <<>>)

set_muted ==
    \E mute \in BOOLEAN :
        Bridge("set_muted", <<mute>>,
               <<NativeCall("setMuted", <<mute>>, <<>>)>>, <<>>)

restrict_data_collection ==
    \E shouldRestrict \in BOOLEAN :
        Bridge("restrict_data_collection", <<shouldRestrict>>,
               <<NativeCall("restrictDataCollection", <<shouldRestrict>>, <<>>)>>, <<>>)

\* samcodeschartboost_main that clears the listener handle.
samcodeschartboost_main_reset ==
    /\ lastCall' = [name |-> "samcodeschartboost_main", args |-> <<>>,
                    native |-> <<>>, ret |-> <<>>]
    /\ chartboostEventHandle' = 0
    /\ UNCHANGED <<heap, received, objects, sent, listeners>>

samcodeschartboost_main ==
    Bridge("samcodeschartboost_main", <<>>, <<>>, <<>>)

samcodeschartboost_register_prims ==
    Bridge("samcodeschartboost_register_prims", <<>>, <<>>, <<0>>)

\* What sendChartboostEvent records of a call, whatever it does with it.
Called(type, location, uri, reward_coins, error, status) ==
    /\ sent' = Append(sent, [type |-> type, location |-> location, uri |-> uri,
                             reward_coins |-> reward_coins, error |-> error,
                             status |-> status,
                             registered |-> chartboostEventHandle # 0])
    /\ lastCall' = [name |-> "sendChartboostEvent",
                    args |-> <<type, location, uri, reward_coins, error, status>>,
                    native |-> <<>>, ret |-> <<>>]

\* The first AutoGCRoot allocated instead of the one the handle points to.
Listener_first == heap[1]

\* chartboostEventHandle->get(): the host function the AutoGCRoot holds.
Listener == heap[chartboostEventHandle]

\* forward with the object allocated before the null check.
forward_allocFirst(type, location, uri, reward_coins, error, status) ==
    /\ objects' = objects + 1
    /\ IF chartboostEventHandle = 0
       THEN UNCHANGED received
       ELSE received' = Append(received,
                [handler |-> Listener,
                 arg |-> EventObject(type, location, uri, reward_coins, error, status)])

\* forward that treats error 0 as "nothing to report".
forward_skipZero(type, location, uri, reward_coins, error, status) ==
    IF chartboostEventHandle = 0 \/ error = 0
    THEN UNCHANGED <<received, objects>>
    ELSE /\ objects' = objects + 1
         /\ received' = Append(received,
                [handler |-> Listener,
                 arg |-> EventObject(type, location, uri, reward_coins, error, status)])

\* forward that drops a callback equal to the one forwarded last.
forward_dedup(type, location, uri, reward_coins, error, status) ==
    LET o == EventObject(type, location, uri, reward_coins, error, status)
    IN  IF \/ chartboostEventHandle = 0
           \/ (received # <<>> /\ received[Len(received)].arg = o)
        THEN UNCHANGED <<received, objects>>
        ELSE /\ objects' = objects + 1
             /\ received' = Append(received, [handler |-> Listener, arg |-> o])

\* The body of sendChartboostEvent (lines 140-151): nothing without a
\* listener, else build the object and call the listener with it.
forward(type, location, uri, reward_coins, error, status) ==
    IF chartboostEventHandle = 0
    THEN UNCHANGED <<received, objects>>
    ELSE /\ objects' = objects + 1
         /\ received' = Append(received,
                [handler |-> Listener,
                 arg |-> EventObject(type, location, uri, reward_coins, error, status)])

sendChartboostEvent ==
    /\ Len(sent) < MaxEvents
    /\ \E type \in EventTypes, location \in EventLocations, uri \in EventUris,
          reward_coins \in RewardCoins, error \in ErrorCodes, status \in BOOLEAN :
        /\ Called(type, location, uri, reward_coins, error, status)
        /\ forward(type, location, uri, reward_coins, error, status)
    /\ UNCHANGED <<chartboostEventHandle, heap, listeners>>

Next ==
    \/ set_listener
    \/ show_interstitial
    \/ cache_interstitial
    \/ has_interstitial
    \/ show_rewarded_video
    \/ cache_rewarded_video
    \/ has_rewarded_video
    \/ is_any_view_visible
    \/ set_custom_id
    \/ get_custom_id
    \/ set_should_request_interstitials_in_first_session
    \/ get_auto_cache_ads
    \/ set_auto_cache_ads
    \/ set_should_prefetch_video_content
    \/ get_sdk_version
    \/ set_status_bar_behavior
    \/ set_muted
    \/ restrict_data_collection
    \/ samcodeschartboost_main
    \/ samcodeschartboost_register_prims
    \/ sendChartboostEvent

Spec == Init /\ [][Next]_vars

\* ---------------------------------------------------------------- properties
\* A step is a sendChartboostEvent call exactly when the callback history grows.
SendStep == Len(sent') = Len(sent) + 1

\* The callback a SendStep is about.
SentNow == sent'[Len(sent')]

EventFields == {"type", "location", "uri", "reward_coins", "error", "status"}

\* The host record o carries the six arguments of the native callback s:
\* the strings by content, the integers and the boolean by value.
FieldsMatch(o, s) ==
    /\ DOMAIN o = EventFields
    /\ Append(o["type"], 0) = s.type
    /\ Append(o["location"], 0) = s.location
    /\ Append(o["uri"], 0) = s.uri
    /\ o["reward_coins"] = s.reward_coins
    /\ o["error"] = s.error
    /\ o["status"] = s.status

\* The callbacks made while a listener was registered, in order.
Registered == SelectSeq(sent, LAMBDA s : s.registered)

\* C1: a sendChartboostEvent call made after a set_listener call invokes a
\* registered handler exactly once, with a record whose six fields equal the
\* six arguments of the call; a callback equal to an earlier one is forwarded
\* like any other.
C1_Forwarded ==
    [][(SendStep /\ listeners # <<>>) =>
         /\ Len(received') = Len(received) + 1
         /\ SubSeq(received', 1, Len(received)) = received
         /\ \E i \in 1..Len(listeners) :
                received'[Len(received')].handler = listeners[i]
         /\ FieldsMatch(received'[Len(received')].arg, SentNow)]_vars

\* Two native callbacks with equal arguments were both forwarded.
C1_Witness ==
    /\ lastCall.name = "sendChartboostEvent"
    /\ Len(sent) = 2 /\ sent[1] = sent[2] /\ sent[1].registered
    /\ Len(received) = 2 /\ received[1].arg = received[2].arg

\* C2 (as claimed): once set_listener has been called, the handle refers to
\* the handler registered by the first call, whatever follows.
C2_SetOnce ==
    listeners # <<>> =>
        /\ chartboostEventHandle # 0
        /\ heap[chartboostEventHandle] = listeners[1]

\* C2 (amended): the handle is null exactly until the first set_listener
\* call, and from then on it refers to the handler registered by the most
\* recent set_listener call, whatever bridge calls and callbacks follow.
C2_LatestListener ==
    /\ listeners = <<>> => chartboostEventHandle = 0
    /\ listeners # <<>> =>
        /\ chartboostEventHandle \in 1..Len(heap)
        /\ heap[chartboostEventHandle] = listeners[Len(listeners)]

\* A second set_listener call with another handler, then a callback: the
\* handle refers to the second handler.
C2_Witness ==
    /\ Len(listeners) = 2 /\ listeners[1] # listeners[2]
    /\ lastCall.name = "sendChartboostEvent"
    /\ heap[chartboostEventHandle] = listeners[2]

SetterNative ==
    [show_interstitial |-> "showInterstitial",
     cache_interstitial |-> "cacheInterstitial",
     show_rewarded_video |-> "showRewardedVideo",
     cache_rewarded_video |-> "cacheRewardedVideo",
     set_custom_id |-> "setCustomId",
     set_should_request_interstitials_in_first_session |->
         "setShouldRequestInterstitialsInFirstSession",
     set_auto_cache_ads |-> "setAutoCacheAds",
     set_should_prefetch_video_content |-> "setShouldPrefetchVideoContent",
     set_status_bar_behavior |-> "setStatusBarBehavior",
     set_muted |-> "setMuted",
     restrict_data_collection |-> "restrictDataCollection"]

StringSetters ==
    {"show_interstitial", "cache_interstitial", "show_rewarded_video",
     "cache_rewarded_video", "set_custom_id"}

\* C3: every bridging action and setter makes exactly one native call, of
\* the corresponding entry point, with the argument value the host passed
\* (a string as the C string of the same characters), and no other call.
C3_PassThrough ==
    lastCall.name \in DOMAIN SetterNative =>
        /\ Len(lastCall.native) = 1
        /\ lastCall.native[1].name = SetterNative[lastCall.name]
        /\ Len(lastCall.native[1].args) = 1
        /\ IF lastCall.name \in StringSetters
           THEN lastCall.native[1].args[1] = Append(lastCall.args[1], 0)
           ELSE lastCall.native[1].args[1] = lastCall.args[1]

QueryNative ==
    [has_interstitial |-> "hasInterstitial",
     has_rewarded_video |-> "hasRewardedVideo",
     is_any_view_visible |-> "isAnyViewVisible",
     get_auto_cache_ads |-> "getAutoCacheAds",
     get_custom_id |-> "getCustomId",
     get_sdk_version |-> "getSDKVersion"]

LocationQueries == {"has_interstitial", "has_rewarded_video"}

\* C4: every bridging query hands back to the host the value the
\* corresponding native entry point returned for the same argument (a string
\* by content).
C4_QueryResult ==
    lastCall.name \in DOMAIN QueryNative =>
        /\ Len(lastCall.native) = 1
        /\ lastCall.native[1].name = QueryNative[lastCall.name]
        /\ IF lastCall.name \in LocationQueries
           THEN lastCall.native[1].args = <<Append(lastCall.args[1], 0)>>
           ELSE lastCall.native[1].args = <<>>
        /\ Len(lastCall.ret) = 1
        /\ IF lastCall.name = "get_sdk_version"
           THEN Append(lastCall.ret[1], 0) = lastCall.native[1].ret[1]
           ELSE lastCall.ret = lastCall.native[1].ret

\* C5: with a listener registered, every callback is forwarded with the
\* error field equal to the native error argument, whatever its value; and
\* no callback makes the bridge call the native SDK or change its handle or
\* its roots.
C5_ErrorForwarded ==
    [][SendStep =>
         /\ chartboostEventHandle # 0 =>
              /\ Len(received') = Len(received) + 1
              /\ received'[Len(received')].arg["error"] = SentNow.error
         /\ lastCall'.native = <<>>
         /\ chartboostEventHandle' = chartboostEventHandle
         /\ heap' = heap]_vars

\* A callback with error code 0 was forwarded, with error 0.
C5_Witness ==
    /\ lastCall.name = "sendChartboostEvent"
    /\ sent # <<>> /\ sent[Len(sent)].registered /\ sent[Len(sent)].error = 0
    /\ received # <<>> /\ received[Len(received)].arg["error"] = 0

\* C6: while no listener has been registered nothing is delivered and no
\* record is allocated; a callback made then is never delivered later: the
\* deliveries are as many as the callbacks made with a listener registered,
\* and so are the records.
C6_DroppedForGood ==
    /\ chartboostEventHandle = 0 => (received = <<>> /\ objects = 0)
    /\ Len(received) = Len(Registered)
    /\ objects = Len(Registered)

\* A callback without a listener, then set_listener, then a callback: one
\* delivery only.
C6_Witness ==
    /\ Len(sent) = 2 /\ ~sent[1].registered /\ sent[2].registered
    /\ chartboostEventHandle # 0
    /\ Len(received) = 1 /\ objects = 1

\* C7: each callback is delivered to the handler passed to the most recent
\* set_listener call and to no other; the handle, once set, is never null
\* again.
C7_MostRecent ==
    [][/\ (SendStep /\ listeners # <<>>) =>
            /\ Len(received') = Len(received) + 1
            /\ SubSeq(received', 1, Len(received)) = received
            /\ received'[Len(received')].handler = listeners[Len(listeners)]
       /\ chartboostEventHandle # 0 => chartboostEventHandle' # 0]_vars

\* After two set_listener calls with different handlers a callback went to
\* the second.
C7_Witness ==
    /\ lastCall.name = "sendChartboostEvent"
    /\ Len(listeners) = 2 /\ listeners[1] # listeners[2]
    /\ sent # <<>> /\ sent[Len(sent)].registered
    /\ received # <<>> /\ received[Len(received)].handler = listeners[2]

\* C8: the records the handlers have received are, in order and in number,
\* the callbacks made while a listener was registered: at the return of each
\* sendChartboostEvent call its record has been delivered.
C8_OrderPreserved ==
    /\ Len(received) = Len(Registered)
    /\ \A i \in 1..Len(Registered) : FieldsMatch(received[i].arg, Registered[i])

\* Two different callbacks were forwarded.
C8_Witness ==
    /\ Len(sent) = 2 /\ sent[1].registered /\ sent[1] # sent[2]
    /\ Len(received) = 2 /\ received[1].arg # received[2].arg

\* C9: only set_listener writes the handle (and allocates a root) and only
\* sendChartboostEvent invokes a handler: every other operation leaves the
\* handle and the roots unchanged and invokes nothing, and sendChartboostEvent
\* leaves the handle and the roots unchanged.
C9_Frame ==
    [][/\ lastCall'.name # "set_listener" =>
            /\ chartboostEventHandle' = chartboostEventHandle
            /\ heap' = heap
       /\ lastCall'.name # "sendChartboostEvent" =>
            /\ received' = received
            /\ objects' = objects]_vars

\* A bridging call made with a listener registered and an event delivered.
C9_Witness ==
    /\ lastCall.name = "samcodeschartboost_main"
    /\ chartboostEventHandle # 0
    /\ received # <<>>

====
